---- MODULE Spec2Model ----
(***************************************************************************)
(* cryptoSQLite: the Crypto engine (src/src/crypto/Crypto.cpp), its        *)
(* keyfile on disk, and the registration protocol of the VFS shim          *)
(* (src/src/vfs/VFS.h).                                                    *)
(*                                                                         *)
(* Byte strings (Buffer contents, the keyfile, pages) are sequences of     *)
(* numbers 0..255.  The cipher (IDataCrypt) and the Buffer class are not   *)
(* part of the three source files; they are modelled from the capability   *)
(* contract of the specification (section 6) and from how Crypto.cpp uses  *)
(* them.                                                                   *)
(***************************************************************************)
EXTENDS Integers, Sequences, FiniteSets, TLC

(***************************************************************************)
(* Bounds of the model.                                                    *)
(***************************************************************************)
\* number of engine operations in one behaviour
MaxOps == 5
\* number of operations during which the file system fails, in a behaviour on
\* an unreliable file system
MaxFaults == 1
\* number of engine operations in one behaviour on an unreliable file system
MaxOpsIO == 3

(***************************************************************************)
(* Program constants.                                                      *)
(***************************************************************************)
\* Crypto.cpp:204, the minimum page size used when the page-1 cache is empty
MinPageSize == 512
\* sizeof(uint32_t), the width of the two size fields of the keyfile
SizeFieldLen == 4

ByteMod == 256

(***************************************************************************)
(* Input sets.                                                             *)
(***************************************************************************)
\* external keys handed to the constructor and to rekey (fileKey, keylen)
FileKeys == {<<1>>, <<2>>}
\* data keys generateKey can produce
DataKeys == {<<0>>, <<1>>}
\* page numbers the callers use
PageNos == {1, 2}
\* plaintext pages handed to encryptPage
Pages == {<<0, 1>>, <<1, 0, 1>>}
\* sizes handed to resizePageBuffers
BufferSizes == {3, MinPageSize + 1}

NoFile == <<-1>>

(***************************************************************************)
(* Buffer (SecureMemory): write, clear, padd, size.                        *)
(***************************************************************************)
Max(a, b) == IF a >= b THEN a ELSE b
Min(a, b) == IF a <= b THEN a ELSE b

Zeros(n) == [i \in 1..n |-> 0]

Prefix(s, n) == SubSeq(s, 1, Min(Len(s), Max(n, 0)))

\* Buffer::write(data, len, offset): overwrite from offset on, grow if needed,
\* keep what lies beyond offset+len
BufWrite(buf, data, offset) ==
    LET end == offset + Len(data)
    IN IF end >= Len(buf)
       THEN SubSeq(buf, 1, offset) \o data
       ELSE SubSeq(buf, 1, offset) \o data \o SubSeq(buf, end + 1, Len(buf))

\* Buffer::clear()
BufClear(buf) == <<>>

\* Buffer::padd(size, value): grow to size with value
BufPadd(buf, size, value) ==
    LET n == Len(buf)
    IN IF n < size THEN buf \o [i \in 1..(size - n) |-> value] ELSE buf

(***************************************************************************)
(* The cipher capability: generateKey, wrapKey, unwrapKey, encrypt,        *)
(* decrypt.  Key wrapping carries an integrity check that depends on the   *)
(* wrapping key; page encryption is byte-wise, keyed by the data key and   *)
(* the page number, and every ciphertext byte carries an authentication    *)
(* tag.                                                                    *)
(***************************************************************************)
RECURSIVE Digest(_)
Digest(wk) == IF wk = <<>> THEN 7 ELSE (wk[1] + (31 * Digest(Tail(wk)))) % 251

\* IDataCrypt::wrapKey(out, key, wrappingKey): out.write(wrapped, 0)
CipherWrap(key, wrappingKey) ==
    LET d == Digest(wrappingKey)
    IN [i \in 1..Len(key) |-> (key[i] + d) % ByteMod] \o <<d>>

\* the integrity check of IDataCrypt::unwrapKey
UnwrapOK(wrapped, wrappingKey) ==
    /\ Len(wrapped) >= 1
    /\ wrapped[Len(wrapped)] = Digest(wrappingKey)

\* IDataCrypt::unwrapKey(out, wrapped, wrappingKey), when the check passes
CipherUnwrap(wrapped, wrappingKey) ==
    LET d == Digest(wrappingKey)
    IN [i \in 1..(Len(wrapped) - 1) |-> (wrapped[i] - d) % ByteMod]

KeyNum(key) == IF key = <<>> THEN 0 ELSE key[1] % 2

\* authentication tag of (key, page number); never 0, so zero bytes never
\* authenticate
Tag(key, pageNo) == 1 + (16 * KeyNum(key)) + (pageNo % 16)

\* the key stream of (key, page number)
Pad(key, pageNo) == (KeyNum(key) + pageNo) % 2

\* IDataCrypt::encrypt: the ciphertext of a whole input buffer; a byte carries
\* the tag and the encrypted low bit of the plaintext byte
CipherEnc(pageNo, in, key) ==
    LET t == 2 * Tag(key, pageNo)
        k == Pad(key, pageNo)
    IN [i \in 1..Len(in) |-> t + ((in[i] + k) % 2)]

\* the authentication check of IDataCrypt::decrypt
AuthOK(pageNo, in, key) ==
    LET t == Tag(key, pageNo)
    IN \A i \in 1..Len(in) : in[i] \div 2 = t

\* IDataCrypt::decrypt, when the check passes
CipherDec(pageNo, in, key) ==
    LET k == Pad(key, pageNo)
    IN [i \in 1..Len(in) |-> (in[i] - k) % 2]

(***************************************************************************)
(* The keyfile: [uint32 keySize][wrapped key][uint32 pageSize][first page] *)
(***************************************************************************)
\* a uint32_t as fwrite(&x, 4, 1, file) stores it (little endian)
LE32(n) == [i \in 1..SizeFieldLen |-> (n \div (ByteMod ^ (i - 1))) % ByteMod]

\* a uint32_t as fread(&x, 4, 1, file) loads it
RECURSIVE FromLE32(_)
FromLE32(b) == IF b = <<>> THEN 0 ELSE b[1] + (ByteMod * FromLE32(Tail(b)))

\* outcome of the I/O calls of one operation: whether fopen succeeds, whether
\* the device accepts every byte, and if not after how many bytes it stops
IOOK == [open |-> TRUE, full |-> TRUE, cap |-> 0]
OpenFails == [open |-> FALSE, full |-> TRUE, cap |-> 0]
ShortWrite(n) == [open |-> TRUE, full |-> FALSE, cap |-> n]

\* fwrite(data, 1, n, file): appends what the device still accepts; the
\* return value is not looked at (Crypto.cpp:90-91, 101-102)
Fwrite(file, data, io) ==
    IF io.full THEN file \o data ELSE file \o Prefix(data, io.cap - Len(file))

\* fread that always reports n bytes: what the file lacks reads as zero
FreadUnchecked(file, from, n) ==
    LET got == SubSeq(file, from + 1, Min(Len(file), from + n))
        missing == n - Len(got)
    IN got \o [i \in 1..missing |-> 0]

\* fread(buf, 1, n, file) with the file position at `from`: the bytes it
\* delivers, fewer than n when the file ends early
Fread(file, from, n) == SubSeq(file, from + 1, Min(Len(file), from + n))

\* a SecureBuffer whose bytes are zeroed by a statement before the closing
\* brace of its scope instead of by its destructor
SecureBufferWipedAtBrace(size, exit) ==
    [size |-> size, exit |-> exit, wiped |-> (exit = "brace")]

\* a SecureBuffer of the given size when its scope is left, by the closing
\* "brace" or by a "throw" (which the catch of lines 110, 171 makes unwind
\* the stack): ~SecureBuffer (lines 70-77, 124-131) has zeroed every byte
\* before delete[]
SecureBufferFreed(size, exit) ==
    [size |-> size, exit |-> exit, wiped |-> TRUE]

\* Crypto::writeKeyFile (lines 80-113) on the keyfile `file`: the exception, the
\* file, the FILE handles left open and the SecureBuffers it has freed
writeKeyFile(file, wrapped, firstPage, io) ==
    IF ~io.open
    THEN [err |-> "io", file |-> file, handles |-> 0,
          buffers |-> <<>>]                      \* fopen failed: throw
    ELSE LET opened == <<>>                      \* "wb" truncates
             k1 == Fwrite(opened, LE32(Len(wrapped)), io)
             k2 == Fwrite(k1, wrapped, io)
             p1 == Fwrite(k2, LE32(Len(firstPage)), io)
             p2 == Fwrite(p1, firstPage, io)
             keyBuf == <<SecureBufferFreed(Len(wrapped), "brace")>>
             pageBuf == <<SecureBufferFreed(Len(firstPage), "brace")>>
         IN IF Len(firstPage) > 0
            THEN [err |-> "ok", file |-> p2, handles |-> 0,    \* fclose
                  buffers |-> keyBuf \o pageBuf]
            ELSE [err |-> "ok", file |-> k2, handles |-> 0,
                  buffers |-> keyBuf]

\* readKeyFile leaving by a throw: the step that failed, whether the FILE is
\* still open (no fclose on these paths) and the SecureBuffers freed
ReadFailed(step, handles, buffers) ==
    [err |-> "io", wrapped |-> <<>>, firstPage |-> <<>>, step |-> step,
     handles |-> handles, buffers |-> buffers]

\* Crypto::readKeyFile (lines 136-174) on a new engine (both buffers empty)
readKeyFile(file, io) ==
    IF file = NoFile \/ ~io.open
    THEN ReadFailed("open", 0, <<>>)                          \* line 138
    ELSE
      LET sizeField == Fread(file, 0, SizeFieldLen)
      IN IF Len(sizeField) < SizeFieldLen
         THEN ReadFailed("keySize", 1, <<>>)                  \* line 142
         ELSE
           LET keySize == FromLE32(sizeField)
               keyData == Fread(file, SizeFieldLen, keySize)
               keyEnd == SizeFieldLen + keySize
               keyBuf == <<SecureBufferFreed(keySize, "brace")>>
           IN IF Len(keyData) < keySize
              THEN ReadFailed("keyData", 1,                   \* line 148
                              <<SecureBufferFreed(keySize, "throw")>>)
              ELSE
                LET wrapped == BufWrite(BufClear(<<>>), keyData, 0)
                    pageField == Fread(file, keyEnd, SizeFieldLen)
                    sizeEnd == keyEnd + SizeFieldLen
                IN IF Len(pageField) < SizeFieldLen
                   THEN ReadFailed("pageSize", 1, keyBuf)     \* line 157
                   ELSE
                     LET pageSize == FromLE32(pageField)
                         pageData == Fread(file, sizeEnd, pageSize)
                         pageBuf == <<SecureBufferFreed(pageSize, "brace")>>
                     IN IF pageSize > 0
                        THEN IF Len(pageData) < pageSize
                             THEN ReadFailed("pageData", 1,   \* line 162
                                      keyBuf \o
                                      <<SecureBufferFreed(pageSize, "throw")>>)
                             ELSE [err |-> "ok", wrapped |-> wrapped,
                                   firstPage |->
                                       BufWrite(BufClear(<<>>), pageData, 0),
                                   step |-> "done", handles |-> 0,  \* fclose
                                   buffers |-> keyBuf \o pageBuf]
                        ELSE [err |-> "ok", wrapped |-> wrapped,
                              firstPage |-> <<>>, step |-> "done",
                              handles |-> 0, buffers |-> keyBuf]

\* Crypto::wrapKey: the new value of mWrappedKey
wrapKey(key, wrapped, fileKey) ==
    LET wrappingKey == BufWrite(<<>>, fileKey, 0)
    IN BufWrite(BufClear(wrapped), CipherWrap(key, wrappingKey), 0)

\* Crypto::unwrapKey: the error it raises and the new value of mKey
unwrapKey(key, wrapped, fileKey) ==
    LET wrappingKey == BufWrite(<<>>, fileKey, 0)
    IN IF UnwrapOK(wrapped, wrappingKey)
       THEN [err |-> "ok",
             key |-> BufWrite(BufClear(key), CipherUnwrap(wrapped, wrappingKey), 0)]
       ELSE [err |-> "auth", key |-> BufClear(key)]

NoEngine ==
    [err |-> "none", mKey |-> <<>>, mWrappedKey |-> <<>>, mFirstPage |-> <<>>,
     mPageBufferIn |-> <<>>, mPageBufferOut |-> <<>>,
     handles |-> 0, buffers |-> <<>>]

\* Crypto::Crypto with lines 30 and 31 swapped: the key is wrapped before it
\* is generated
CryptoNewWrapsFirst(file, fileKey, exists, generated, io) ==
    IF ~exists
    THEN [NoEngine EXCEPT !.err = "ok", !.mKey = generated,
                          !.mWrappedKey = wrapKey(<<>>, <<>>, fileKey)]
    ELSE LET r == readKeyFile(file, io)
             u == unwrapKey(<<>>, r.wrapped, fileKey)
         IN IF r.err # "ok" THEN [NoEngine EXCEPT !.err = r.err]
            ELSE IF u.err # "ok" THEN [NoEngine EXCEPT !.err = u.err]
            ELSE [NoEngine EXCEPT !.err = "ok", !.mKey = u.key,
                                  !.mWrappedKey = r.wrapped,
                                  !.mFirstPage = r.firstPage]

\* Crypto::Crypto with the exception of unwrapKey swallowed
CryptoNewIgnoresAuth(file, fileKey, exists, generated, io) ==
    IF ~exists
    THEN [NoEngine EXCEPT !.err = "ok", !.mKey = generated,
                          !.mWrappedKey = wrapKey(generated, <<>>, fileKey)]
    ELSE LET r == readKeyFile(file, io)
             u == unwrapKey(<<>>, r.wrapped, fileKey)
         IN IF r.err # "ok" THEN [NoEngine EXCEPT !.err = r.err]
            ELSE [NoEngine EXCEPT !.err = "ok", !.mKey = u.key,
                                  !.mWrappedKey = r.wrapped,
                                  !.mFirstPage = r.firstPage]

\* Crypto::Crypto (lines 24-38): the engine it builds, or the error it throws,
\* with the FILE handles and SecureBuffers readKeyFile leaves behind.
\* generated is the key generateKey produces.
CryptoNew(file, fileKey, exists, generated, io) ==
    IF ~exists
    THEN [NoEngine EXCEPT !.err = "ok", !.mKey = generated,
                          !.mWrappedKey = wrapKey(generated, <<>>, fileKey)]
    ELSE LET r == readKeyFile(file, io)
             u == unwrapKey(<<>>, r.wrapped, fileKey)
             read == [NoEngine EXCEPT !.handles = r.handles,
                                      !.buffers = r.buffers]
         IN IF r.err # "ok" THEN [read EXCEPT !.err = r.err]
            ELSE IF u.err # "ok" THEN [read EXCEPT !.err = u.err]
            ELSE [read EXCEPT !.err = "ok", !.mKey = u.key,
                              !.mWrappedKey = r.wrapped,
                              !.mFirstPage = r.firstPage]

\* Crypto::resizePageBuffers without the clear() of lines 210 and 213
resizeWithoutClear(buf, size) == BufPadd(buf, size, 0)

\* Crypto::resizePageBuffers (lines 209-215): the new value of either buffer
resizePageBuffers(buf, size) == BufPadd(BufClear(buf), size, 0)

\* Crypto::encryptPage, lines 180-182: the buffers after the cipher has run
encryptBuffers(bufIn, bufOut, key, page, pageNo) ==
    LET in == BufWrite(bufIn, page, 0)
    IN [in |-> in, out |-> BufWrite(bufOut, CipherEnc(pageNo, in, key), 0)]

\* Crypto::encryptPage without the test of line 184: every page is cached
cacheFirstPageEveryPage(firstPage, bufOut, pageNo) ==
    BufWrite(BufClear(firstPage), bufOut, 0)

\* Crypto::encryptPage with pages counted from 0 in line 184
cacheFirstPageZeroBased(firstPage, bufOut, pageNo) ==
    IF pageNo = 0 THEN BufWrite(BufClear(firstPage), bufOut, 0) ELSE firstPage

\* Crypto::encryptPage, lines 184-187: the page-1 cache after the call
cacheFirstPage(firstPage, bufOut, pageNo) ==
    IF pageNo = 1 THEN BufWrite(BufClear(firstPage), bufOut, 0) ELSE firstPage

\* Crypto::decryptPage, lines 195-197: the buffers after the cipher has run,
\* or the integrity error the cipher raises.  page = <<>> with isNull stands
\* for pageInOut == nullptr.
decryptBuffers(bufIn, bufOut, key, page, isNull, pageNo) ==
    LET in == IF isNull THEN bufIn ELSE BufWrite(bufIn, page, 0)
    IN IF AuthOK(pageNo, in, key)
       THEN [err |-> "ok", in |-> in,
             out |-> BufWrite(bufOut, CipherDec(pageNo, in, key), 0)]
       ELSE [err |-> "auth", in |-> in, out |-> bufOut]

\* Crypto::decryptPage with the memcpy of line 199 also done when the cipher
\* has rejected the page
copyBackUnchecked(page, bufOut, err) ==
    LET got == Prefix(bufOut, Len(page))
    IN got \o SubSeq(page, Len(got) + 1, Len(page))

\* Crypto::decryptPage, lines 198-199: the caller's buffer after the call; the
\* memcpy is reached only when decrypt has not thrown
copyBack(page, bufOut, err) ==
    IF err = "ok" THEN SubSeq(bufOut, 1, Len(page)) ELSE page

\* Crypto::decryptFirstPageCache without lines 205-206: buffers resized, the
\* cache not decrypted
decryptCacheResizeOnly(bufIn, bufOut, firstPage, key) ==
    LET size == Max(Len(firstPage), MinPageSize)
    IN [err |-> "ok", in |-> resizePageBuffers(bufIn, size), calls |-> 0,
        out |-> resizePageBuffers(bufOut, size)]

\* Crypto::decryptFirstPageCache without the std::max of line 204
decryptCacheNoFloor(bufIn, bufOut, firstPage, key) ==
    LET size == Len(firstPage)
        in == resizePageBuffers(bufIn, size)
        out == resizePageBuffers(bufOut, size)
    IN IF Len(firstPage) > 0
       THEN IF AuthOK(1, firstPage, key)
            THEN [err |-> "ok", in |-> in, calls |-> 1,
                  out |-> BufWrite(out, CipherDec(1, firstPage, key), 0)]
            ELSE [err |-> "auth", in |-> in, calls |-> 1, out |-> out]
       ELSE [err |-> "ok", in |-> in, calls |-> 0, out |-> out]

\* Crypto::decryptFirstPageCache (lines 202-207): the buffers after the call
decryptCache(bufIn, bufOut, firstPage, key) ==
    LET size == Max(Len(firstPage), MinPageSize)
        in == resizePageBuffers(bufIn, size)
        out == resizePageBuffers(bufOut, size)
    IN IF Len(firstPage) > 0
       THEN IF AuthOK(1, firstPage, key)
            THEN [err |-> "ok", in |-> in, calls |-> 1,
                  out |-> BufWrite(out, CipherDec(1, firstPage, key), 0)]
            ELSE [err |-> "auth", in |-> in, calls |-> 1, out |-> out]
       ELSE [err |-> "ok", in |-> in, calls |-> 0, out |-> out]

(***************************************************************************)
(* State.                                                                  *)
(***************************************************************************)
VARIABLES
    keyfile,          \* bytes of <database>-keyfile on disk, or NoFile
    alive,            \* whether a Crypto engine exists for the database
    mKey,             \* Crypto::mKey, the data key
    mWrappedKey,      \* Crypto::mWrappedKey
    mFirstPage,       \* Crypto::mFirstPage, the page-1 cache
    mPageBufferIn,    \* Crypto::mPageBufferIn
    mPageBufferOut,   \* Crypto::mPageBufferOut
    dbPage,           \* the database file: ciphertext last written per page
    faultsLeft,       \* how many more operations the file system may fail in
    \* what the caller of the last operation observed
    lastOp,           \* name of the last operation
    lastArg,          \* its arguments
    lastErr,          \* "ok", or the exception it threw
    lastIO,           \* what the file system did during it
    ret,              \* ciphertext encryptPage returned
    pageInOut,        \* the caller's buffer after decryptPage
    cipherCalls,      \* calls of encrypt/decrypt the operation made
    pre,              \* data key, external key, keyfile, wrapped key, cache
                      \* and output buffer before the operation
    \* history
    plainPage,        \* plaintext last encrypted per page
    fileKeyNow,       \* external key the engine last wrapped or unwrapped with
    created,          \* whether the engine was constructed with exists == false
    onDisk,           \* external key and data key of the last keyfile write,
                      \* and the length of the file it writes when no fwrite
                      \* falls short
    sessOps,          \* operations on the engine since its construction
    nOps,             \* operations so far
    opsLimit,         \* operations a behaviour may take
    openHandles,      \* FILE handles the engine has opened and not closed
    transient,        \* SecureBuffers the last operation allocated and freed
    \* the VFS shim
    mFileKey,         \* VFS::mFileKey (with mFileKeySize), the pending key
    vpc,              \* position of each database's registration transaction
    callerKey,        \* the key each transaction's caller passed to prepare
    alone,            \* whether no other transaction ran between a
                      \* transaction's prepare and its open
    dbCrypto,         \* per database: the engine VFS::open attached
    fwd               \* the last call of a forwarded method-table entry: what
                      \* the host passed, what the underlying VFS received
                      \* and returned, what the host got back

cryptoVars ==
    << keyfile, alive, mKey, mWrappedKey, mFirstPage, mPageBufferIn,
       mPageBufferOut, dbPage, faultsLeft, lastOp, lastArg, lastErr, lastIO, ret,
       pageInOut, cipherCalls, pre, plainPage, fileKeyNow, created, onDisk,
       sessOps, nOps, opsLimit, openHandles, transient >>

vfsVars == << mFileKey, vpc, callerKey, alone, dbCrypto, fwd >>

vars == << cryptoVars, vfsVars >>

NoArg ==
    [exists |-> FALSE, fileKey |-> <<>>, page |-> <<>>, pageNo |-> 0,
     isNull |-> FALSE, size |-> 0]

\* I/O outcomes the file system can produce while the keyfile is written
WriteOutcomes(wrapped) ==
    IF faultsLeft > 0
    THEN LET keyEnd == SizeFieldLen + Len(wrapped)
         IN {IOOK, OpenFails} \cup
            {ShortWrite(n) : n \in {0, 2, SizeFieldLen, SizeFieldLen + 1,
                                    keyEnd, keyEnd + 2, keyEnd + SizeFieldLen,
                                    keyEnd + SizeFieldLen + 1}}
    ELSE {IOOK}
ReadOutcomes == IF faultsLeft > 0 THEN {IOOK, OpenFails} ELSE {IOOK}

Databases == {"a", "b"}
NoKey == <<>>

\* what an operation finds when it starts
Before ==
    [mKey |-> mKey, fileKey |-> fileKeyNow, keyfile |-> keyfile,
     firstPage |-> mFirstPage, bufOut |-> mPageBufferOut,
     wrapped |-> mWrappedKey]

CryptoInit ==
    /\ keyfile = NoFile
    /\ alive = FALSE
    /\ mKey = <<>>
    /\ mWrappedKey = <<>>
    /\ mFirstPage = <<>>
    /\ mPageBufferIn = <<>>
    /\ mPageBufferOut = <<>>
    /\ dbPage = [n \in PageNos |-> <<>>]
    /\ lastOp = "none"
    /\ lastArg = NoArg
    /\ lastErr = "ok"
    /\ lastIO = IOOK
    /\ ret = <<>>
    /\ pageInOut = <<>>
    /\ cipherCalls = 0
    /\ plainPage = [n \in PageNos |-> <<>>]
    /\ fileKeyNow = <<>>
    /\ created = FALSE
    /\ onDisk = [fileKey |-> <<>>, mKey |-> <<>>, full |-> 0]
    /\ sessOps = 0
    /\ nOps = 0
    /\ openHandles = 0
    /\ transient = <<>>
    /\ pre = Before

\* no forwarded entry has been called
NoForward ==
    [entry |-> "none", given |-> <<>>, method |-> "none", receiver |-> "none",
     args |-> <<>>, result |-> "none", returned |-> "none",
     shim |-> <<>>]

VfsInit ==
    /\ mFileKey = NoKey
    /\ vpc = [d \in Databases |-> "idle"]
    /\ callerKey = [d \in Databases |-> NoKey]
    /\ alone = [d \in Databases |-> TRUE]
    /\ dbCrypto = [d \in Databases |-> NoEngine]
    /\ fwd = NoForward

Init == CryptoInit /\ VfsInit /\ faultsLeft = 0 /\ opsLimit = MaxOps

\* what every engine operation records
Observe(op, arg, err, io, calls) ==
    /\ lastOp' = op
    /\ lastArg' = arg
    /\ lastErr' = err
    /\ lastIO' = io
    /\ cipherCalls' = calls
    /\ pre' = Before
    /\ faultsLeft' = IF io = IOOK THEN faultsLeft ELSE faultsLeft - 1
    /\ nOps' = nOps + 1
    /\ UNCHANGED opsLimit

\* new Crypto(name, fileKey, keylen, exists)
Construct ==
    /\ ~alive
    /\ nOps < opsLimit
    /\ \E exists \in BOOLEAN, fileKey \in FileKeys, generated \in DataKeys,
          io \in ReadOutcomes :
         LET e == CryptoNew(keyfile, fileKey, exists, generated, io)
         IN /\ exists => generated = <<0>>     \* generateKey is not called
            /\ ~exists => io = IOOK            \* no I/O is done
            /\ alive' = (e.err = "ok")
            /\ mKey' = e.mKey
            /\ mWrappedKey' = e.mWrappedKey
            /\ mFirstPage' = e.mFirstPage
            /\ mPageBufferIn' = e.mPageBufferIn
            /\ mPageBufferOut' = e.mPageBufferOut
            /\ fileKeyNow' = IF e.err = "ok" THEN fileKey ELSE <<>>
            /\ created' = (e.err = "ok" /\ ~exists)
            /\ openHandles' = openHandles + e.handles
            /\ transient' = e.buffers
            /\ Observe("construct",
                       [NoArg EXCEPT !.exists = exists, !.fileKey = fileKey],
                       e.err, io, 0)
    /\ sessOps' = 0
    /\ ret' = <<>>
    /\ pageInOut' = <<>>
    /\ UNCHANGED << keyfile, dbPage, plainPage, onDisk, vfsVars >>

\* Crypto::rekey (lines 40-43)
Rekey ==
    /\ alive
    /\ nOps < opsLimit
    /\ \E newFileKey \in FileKeys :
         LET wrapped == wrapKey(mKey, mWrappedKey, newFileKey)
         IN \E io \in WriteOutcomes(wrapped) :
              LET w == writeKeyFile(keyfile, wrapped, mFirstPage, io)
              IN /\ mWrappedKey' = wrapped
                 /\ keyfile' = w.file
                 /\ openHandles' = openHandles + w.handles
                 /\ transient' = w.buffers
                 /\ fileKeyNow' = newFileKey
                 /\ onDisk' = IF io.open
                              THEN [fileKey |-> newFileKey, mKey |-> mKey,
                                    full |-> Len(writeKeyFile(keyfile, wrapped,
                                                 mFirstPage, IOOK).file)]
                              ELSE onDisk
                 /\ Observe("rekey", [NoArg EXCEPT !.fileKey = newFileKey],
                            w.err, io, 0)
    /\ sessOps' = sessOps + 1
    /\ ret' = <<>>
    /\ pageInOut' = <<>>
    /\ UNCHANGED << alive, mKey, mFirstPage, mPageBufferIn, mPageBufferOut,
                    dbPage, plainPage, created, vfsVars >>

\* Crypto::encryptPage (lines 178-191); the caller (the file interceptor)
\* writes the pageSize bytes behind the returned pointer to the database
EncryptPage ==
    /\ alive
    /\ nOps < opsLimit
    /\ \E page \in Pages, pageNo \in PageNos :
         LET b == encryptBuffers(mPageBufferIn, mPageBufferOut, mKey, page, pageNo)
             cache == cacheFirstPage(mFirstPage, b.out, pageNo)
         IN \E io \in (IF pageNo = 1 THEN WriteOutcomes(mWrappedKey) ELSE {IOOK}) :
              LET w == IF pageNo = 1
                       THEN writeKeyFile(keyfile, mWrappedKey, cache, io)
                       ELSE [err |-> "ok", file |-> keyfile, handles |-> 0,
                             buffers |-> <<>>]
                  returned == IF w.err = "ok"
                              THEN SubSeq(b.out, 1, Len(page)) ELSE <<>>
              IN /\ mPageBufferIn' = b.in
                 /\ mPageBufferOut' = b.out
                 /\ mFirstPage' = cache
                 /\ keyfile' = w.file
                 /\ openHandles' = openHandles + w.handles
                 /\ transient' = w.buffers
                 /\ onDisk' = IF pageNo = 1 /\ io.open
                              THEN [fileKey |-> fileKeyNow, mKey |-> mKey,
                                    full |-> Len(writeKeyFile(keyfile,
                                                 mWrappedKey, cache, IOOK).file)]
                              ELSE onDisk
                 /\ ret' = returned
                 /\ dbPage' = IF w.err = "ok"
                              THEN [dbPage EXCEPT ![pageNo] = returned] ELSE dbPage
                 /\ plainPage' = IF w.err = "ok"
                                 THEN [plainPage EXCEPT ![pageNo] = page]
                                 ELSE plainPage
                 /\ Observe("encryptPage",
                            [NoArg EXCEPT !.page = page, !.pageNo = pageNo,
                                          !.size = Len(page)],
                            w.err, io, 1)
    /\ sessOps' = sessOps + 1
    /\ pageInOut' = <<>>
    /\ UNCHANGED << alive, mKey, mWrappedKey, fileKeyNow, created, vfsVars >>

\* Crypto::decryptPage (lines 193-200); the caller passes the page it read
\* from the database, or nullptr
DecryptPage ==
    /\ alive
    /\ nOps < opsLimit
    /\ \E pageNo \in PageNos, isNull \in BOOLEAN :
         LET page == IF isNull THEN <<>> ELSE dbPage[pageNo]
             d == decryptBuffers(mPageBufferIn, mPageBufferOut, mKey, page,
                                 isNull, pageNo)
         IN /\ ~isNull => dbPage[pageNo] # <<>>
            /\ mPageBufferIn' = d.in
            /\ mPageBufferOut' = d.out
            /\ pageInOut' = IF isNull THEN <<>>
                            ELSE copyBack(page, d.out, d.err)
            /\ Observe("decryptPage",
                       [NoArg EXCEPT !.page = page, !.pageNo = pageNo,
                                     !.isNull = isNull, !.size = Len(page)],
                       d.err, IOOK, 1)
    /\ sessOps' = sessOps + 1
    /\ ret' = <<>>
    /\ transient' = <<>>
    /\ UNCHANGED << keyfile, alive, mKey, mWrappedKey, mFirstPage, dbPage,
                    plainPage, fileKeyNow, created, onDisk, openHandles,
                    vfsVars >>

\* Crypto::decryptFirstPageCache (lines 202-207)
DecryptFirstPageCache ==
    /\ alive
    /\ nOps < opsLimit
    /\ LET d == decryptCache(mPageBufferIn, mPageBufferOut, mFirstPage, mKey)
       IN /\ mPageBufferIn' = d.in
          /\ mPageBufferOut' = d.out
          /\ Observe("decryptFirstPageCache", NoArg, d.err, IOOK, d.calls)
    /\ sessOps' = sessOps + 1
    /\ ret' = <<>>
    /\ pageInOut' = <<>>
    /\ transient' = <<>>
    /\ UNCHANGED << keyfile, alive, mKey, mWrappedKey, mFirstPage, dbPage,
                    plainPage, fileKeyNow, created, onDisk, openHandles,
                    vfsVars >>

\* Crypto::resizePageBuffers (lines 209-215), called with the page size
ResizePageBuffers ==
    /\ alive
    /\ nOps < opsLimit
    /\ \E size \in BufferSizes :
         /\ mPageBufferIn' = resizePageBuffers(mPageBufferIn, size)
         /\ mPageBufferOut' = resizePageBuffers(mPageBufferOut, size)
         /\ Observe("resizePageBuffers", [NoArg EXCEPT !.size = size],
                    "ok", IOOK, 0)
    /\ sessOps' = sessOps + 1
    /\ ret' = <<>>
    /\ pageInOut' = <<>>
    /\ transient' = <<>>
    /\ UNCHANGED << keyfile, alive, mKey, mWrappedKey, mFirstPage, dbPage,
                    plainPage, fileKeyNow, created, onDisk, openHandles,
                    vfsVars >>

\* the engine is destroyed when the main database is closed; its buffers go
\* with it
Close ==
    /\ alive
    /\ alive' = FALSE
    /\ mKey' = <<>>
    /\ mWrappedKey' = <<>>
    /\ mFirstPage' = <<>>
    /\ mPageBufferIn' = <<>>
    /\ mPageBufferOut' = <<>>
    /\ fileKeyNow' = <<>>
    /\ created' = FALSE
    /\ lastOp' = "close"
    /\ lastArg' = NoArg
    /\ lastErr' = "ok"
    /\ lastIO' = IOOK
    /\ cipherCalls' = 0
    /\ pre' = Before
    /\ sessOps' = 0
    /\ ret' = <<>>
    /\ pageInOut' = <<>>
    /\ transient' = <<>>
    /\ UNCHANGED << keyfile, dbPage, plainPage, onDisk, nOps, faultsLeft,
                    opsLimit, openHandles, vfsVars >>

Next ==
    \/ Construct
    \/ Rekey
    \/ EncryptPage
    \/ DecryptPage
    \/ DecryptFirstPageCache
    \/ ResizePageBuffers
    \/ Close

\* the engine on a file system that does what it is asked
Spec == Init /\ [][Next]_vars

\* the engine on a file system whose fopen and fwrite may fail
InitIO ==
    CryptoInit /\ VfsInit /\ faultsLeft = MaxFaults /\ opsLimit = MaxOpsIO
SpecIO == InitIO /\ [][Next]_vars

\* the engine on either file system
SpecAny == (Init \/ InitIO) /\ [][Next]_vars

(***************************************************************************)
(* The registration protocol of the VFS shim: prepare, the engine-driven   *)
(* open of the main database, finish.  One transaction per database, the   *)
(* two interleaved freely.                                                 *)
(***************************************************************************)
\* VFS::prepare(zKey, nKey): the new pending key
prepare(pending, zKey) == zKey

\* VFS::finish(): the new pending key
finish(pending) == NoKey

\* VFS::open that constructs the engine without the pending key
openWithoutKey(pending, generated) ==
    CryptoNew(NoFile, NoKey, FALSE, generated, IOOK)

\* VFS::open of a main database that does not exist yet: the engine it
\* attaches, constructed with the pending key
open(pending, generated) == CryptoNew(NoFile, pending, FALSE, generated, IOOK)

\* the other transactions see a step of d's
Disturb(d) == [e \in Databases |-> IF e = d THEN alone[e] ELSE
                                   IF vpc[e] = "prepared" THEN FALSE ELSE alone[e]]

VfsPrepare(d) ==
    /\ vpc[d] = "idle"
    /\ \E zKey \in FileKeys :
         /\ mFileKey' = prepare(mFileKey, zKey)
         /\ callerKey' = [callerKey EXCEPT ![d] = zKey]
    /\ vpc' = [vpc EXCEPT ![d] = "prepared"]
    /\ alone' = Disturb(d)
    /\ fwd' = NoForward
    /\ UNCHANGED << dbCrypto, cryptoVars >>

VfsOpen(d) ==
    /\ vpc[d] = "prepared"
    /\ \E generated \in DataKeys :
         dbCrypto' = [dbCrypto EXCEPT ![d] = open(mFileKey, generated)]
    /\ vpc' = [vpc EXCEPT ![d] = "opened"]
    /\ fwd' = NoForward
    /\ UNCHANGED << mFileKey, callerKey, alone, cryptoVars >>

VfsFinish(d) ==
    /\ vpc[d] = "opened"
    /\ mFileKey' = finish(mFileKey)
    /\ vpc' = [vpc EXCEPT ![d] = "finished"]
    /\ alone' = Disturb(d)
    /\ fwd' = NoForward
    /\ UNCHANGED << callerKey, dbCrypto, cryptoVars >>

(***************************************************************************)
(* The forwarded entries of the method table (VFS.h:93-137).  An entry is  *)
(* named after the sqlite3_vfs member it serves (Delete for xDelete and    *)
(* sVfsDelete).  For each: the number of parameters after pVfs, the member *)
(* of the underlying VFS it calls, the receiver it passes, which of its    *)
(* own parameters it passes in each further position, and whether it       *)
(* returns what the call returns (the two void entries return nothing).    *)
(***************************************************************************)
Forwarder(params, method, pass, returns) ==
    [params |-> params, method |-> method, receiver |-> "underlying",
     pass |-> pass, returns |-> returns]

Forwarders ==
    [Delete            |-> Forwarder(2, "Delete", <<1, 2>>, TRUE),
     Access            |-> Forwarder(3, "Access", <<1, 2, 3>>, TRUE),
     FullPathname      |-> Forwarder(3, "FullPathname", <<1, 2, 3>>, TRUE),
     DlOpen            |-> Forwarder(1, "DlOpen", <<1>>, TRUE),
     DlError           |-> Forwarder(2, "DlError", <<1, 2>>, FALSE),
     DlSym             |-> Forwarder(2, "DlSym", <<1, 2>>, TRUE),
     DlClose           |-> Forwarder(1, "DlClose", <<1>>, FALSE),
     Randomness        |-> Forwarder(2, "Randomness", <<1, 2>>, TRUE),
     Sleep             |-> Forwarder(1, "Sleep", <<1>>, TRUE),
     CurrentTime       |-> Forwarder(1, "CurrentTime", <<1>>, TRUE),
     GetLastError      |-> Forwarder(2, "GetLastError", <<1, 2>>, TRUE),
     CurrentTimeInt64  |-> Forwarder(1, "CurrentTimeInt64", <<1>>, TRUE),
     SetSystemCall     |-> Forwarder(2, "SetSystemCall", <<1, 2>>, TRUE),
     GetSystemCall     |-> Forwarder(1, "GetSystemCall", <<1>>, TRUE),
     NextSystemCall    |-> Forwarder(1, "NextSystemCall", <<1>>, TRUE)]

\* the method table with sVfsCurrentTime calling xCurrentTimeInt64
sVfsTimesSwapped(entry) ==
    IF entry = "CurrentTime" THEN Forwarders["CurrentTimeInt64"]
    ELSE Forwarders[entry]

\* sVfsDelete ... sVfsNextSystemCall
sVfs(entry) == Forwarders[entry]

\* argument values of the host, one per parameter position, all different
HostArgs == <<"arg1", "arg2", "arg3">>
\* what a method of the underlying VFS can return
UnderlyingResults == {"r0", "r1"}

\* the pending key and the registry of the shim
ShimState == << mFileKey, dbCrypto >>

\* the host calls a forwarded entry of the method table
VfsForward ==
    /\ \E entry \in DOMAIN Forwarders, result \in UnderlyingResults :
         LET f == sVfs(entry)
             given == SubSeq(HostArgs, 1, f.params)
         IN fwd' = [entry |-> entry, given |-> given,
                    method |-> f.method, receiver |-> f.receiver,
                    args |-> [i \in 1..Len(f.pass) |-> given[f.pass[i]]],
                    result |-> IF f.returns THEN result ELSE "void",
                    returned |-> IF f.returns THEN result ELSE "void",
                    shim |-> ShimState]
    /\ UNCHANGED << mFileKey, vpc, callerKey, alone, dbCrypto, cryptoVars >>

VfsNext ==
    \/ \E d \in Databases : VfsPrepare(d) \/ VfsOpen(d) \/ VfsFinish(d)
    \/ VfsForward

SpecVFS == Init /\ [][VfsNext]_vars

(***************************************************************************)
(* Properties.                                                             *)
(***************************************************************************)
\* the last operation ran writeKeyFile
WroteKeyFile ==
    \/ lastOp = "rekey"
    \/ lastOp = "encryptPage" /\ lastArg.pageNo = 1

\* what a new engine gets when it reads the keyfile as it is now
Reread == readKeyFile(keyfile, IOOK)

\* what new Crypto(name, fileKey, keylen, exists = true) gives now
Reopen(fileKey) == CryptoNew(keyfile, fileKey, TRUE, <<>>, IOOK)

\* C1: whenever writeKeyFile has completed on an engine holding wrapped key W
\* and first-page cache F (empty or not), readKeyFile on a new engine succeeds
\* and yields exactly W and F.
C1_KeyfileRoundTrip ==
    (WroteKeyFile /\ lastErr = "ok") =>
        /\ Reread.err = "ok"
        /\ Reread.wrapped = mWrappedKey
        /\ Reread.firstPage = mFirstPage

\* C2 as claimed: as soon as the constructor has returned for exists == false,
\* the keyfile exists, holds the wrapped key, and a construction with
\* exists == true and the same external key recovers the same data key.
C2_ConstructorPersists ==
    (lastOp = "construct" /\ ~lastArg.exists /\ lastErr = "ok") =>
        /\ keyfile # NoFile
        /\ Reread.err = "ok" /\ Reread.wrapped = mWrappedKey
        /\ Reopen(lastArg.fileKey).err = "ok"
        /\ Reopen(lastArg.fileKey).mKey = mKey

\* C2 as amended: the constructor for exists == false generates the data key
\* and wraps it under the external key in memory only, leaving the keyfile as
\* it was; once encryptPage(.., 1) has returned, the keyfile holds the wrapped
\* key and a construction with exists == true and the same external key
\* recovers the same data key.
C2_ConstructorWrapsInMemory ==
    /\ (lastOp = "construct" /\ ~lastArg.exists) =>
          /\ lastErr = "ok" /\ alive
          /\ mKey \in DataKeys
          /\ keyfile = pre.keyfile
          /\ unwrapKey(<<>>, mWrappedKey, lastArg.fileKey) =
                 [err |-> "ok", key |-> mKey]
    /\ (lastOp = "encryptPage" /\ lastArg.pageNo = 1 /\ lastErr = "ok") =>
          /\ Reread.err = "ok" /\ Reread.wrapped = mWrappedKey
          /\ Reopen(fileKeyNow).err = "ok"
          /\ Reopen(fileKeyNow).mKey = mKey

\* C2 witness: an engine constructed with exists == false, on a disk without
\* keyfile, has encrypted page 1 as its first operation
C2_Witness ==
    /\ created /\ sessOps = 1 /\ pre.keyfile = NoFile
    /\ lastOp = "encryptPage" /\ lastArg.pageNo = 1 /\ lastErr = "ok"

\* C3: after encryptPage(P, size, 1) the keyfile holds a non-empty cached
\* first page, and a new engine constructed with exists == true that is given
\* the ciphertext encryptPage returned produces exactly P from
\* decryptPage(.., size, 1).
C3_ReopenRoundTrip ==
    /\ (lastOp = "encryptPage" /\ lastArg.pageNo = 1 /\ lastErr = "ok") =>
          /\ Reread.err = "ok"
          /\ Reread.firstPage # <<>>
          /\ Prefix(Reread.firstPage, lastArg.size) = ret
    /\ (/\ lastOp = "decryptPage" /\ lastArg.pageNo = 1 /\ ~lastArg.isNull
        /\ ~created /\ sessOps = 1) =>
          /\ lastErr = "ok"
          /\ lastArg.page = dbPage[1]
          /\ pageInOut = plainPage[1]

\* C3 witness: the reopened engine has decrypted page 1 as its first operation
C3_Witness ==
    /\ lastOp = "decryptPage" /\ lastArg.pageNo = 1 /\ ~lastArg.isNull
    /\ ~created /\ sessOps = 1
    /\ lastErr = "ok" /\ pageInOut \in Pages

C5_RekeyReopens ==
    (lastOp = "rekey" /\ lastErr = "ok" /\ pre.fileKey # lastArg.fileKey) =>
        /\ mKey = pre.mKey
        /\ Reopen(lastArg.fileKey).err = "ok"
        /\ Reopen(lastArg.fileKey).mKey = pre.mKey
        /\ Reopen(pre.fileKey).err # "ok"

\* the engine VFS::open attached to database d was constructed with key
EngineKeyIs(d, key) == unwrapKey(<<>>, dbCrypto[d].mWrappedKey, key).err = "ok"

Opened(d) == vpc[d] \in {"opened", "finished"}

\* C6 as claimed: however the two registration transactions interleave, no
\* database's engine is constructed with the other database's external key.
C6_NoCrossAssign ==
    \A d \in Databases, e \in Databases :
        (d # e /\ Opened(d) /\ callerKey[e] # NoKey /\ callerKey[e] # callerKey[d])
            => ~EngineKeyIs(d, callerKey[e])

\* C6 as amended: a database's engine is constructed with its own external
\* key, and not with the other database's, when no other transaction's prepare
\* or finish runs between its prepare and its open, that is when the caller
\* serialises the transactions.
C6_SerializedNoCrossAssign ==
    \A d \in Databases :
        (Opened(d) /\ alone[d]) =>
            /\ EngineKeyIs(d, callerKey[d])
            /\ \A e \in Databases :
                 (callerKey[e] # NoKey /\ callerKey[e] # callerKey[d])
                     => ~EngineKeyIs(d, callerKey[e])

\* C6 witness: both transactions have run undisturbed, with different keys
C6_Witness ==
    /\ \A d \in Databases : vpc[d] = "finished" /\ alone[d]
    /\ callerKey["a"] # callerKey["b"]

\* the keyfile writeKeyFile produces for the engine as it is now
KeyfileImage == writeKeyFile(<<>>, mWrappedKey, mFirstPage, IOOK).file

\* C7: between engine operations, also after one that ended in an error,
\* whenever the keyfile exists its first-page section equals the engine's
\* page-1 cache and its wrapped-key section equals the engine's wrapped key.
C7_CacheKeyfileConsistent ==
    (alive /\ keyfile # NoFile) => keyfile = KeyfileImage

\* C8: whenever fopen or an fwrite of writeKeyFile, or readKeyFile, fails, the
\* constructor, rekey or encryptPage that ran it signals an error; none of
\* them returns normally while the keyfile is missing or incomplete.
C8_KeyfileFailuresSignalled ==
    (lastOp \in {"construct", "rekey", "encryptPage"}) =>
        /\ lastIO # IOOK => lastErr # "ok"
        /\ (WroteKeyFile /\ lastErr = "ok") => keyfile = KeyfileImage

\* size of the page the last operation was given, if it was given one
PageSizeGiven ==
    IF lastOp \in {"encryptPage", "decryptPage"} THEN lastArg.size ELSE 0

\* C9 as claimed: after construction and after every operation both page
\* buffers have at least max(512, size of the page last passed) bytes.
C9_BuffersAtLeastFloor ==
    alive =>
        /\ Len(mPageBufferIn) >= Max(MinPageSize, PageSizeGiven)
        /\ Len(mPageBufferOut) >= Max(MinPageSize, PageSizeGiven)

\* C9 as amended: a newly constructed engine has empty page buffers; after
\* decryptFirstPageCache both buffers have at least max(512, size of the page-1
\* cache) bytes; after an encryptPage or decryptPage that succeeded on a page
\* of s bytes both have at least s bytes; after resizePageBuffers(n) both have
\* exactly n bytes.
C9_BufferSizes ==
    alive =>
        /\ lastOp = "construct" => mPageBufferIn = <<>> /\ mPageBufferOut = <<>>
        /\ lastOp = "decryptFirstPageCache" =>
              /\ Len(mPageBufferIn) >= Max(MinPageSize, Len(mFirstPage))
              /\ Len(mPageBufferOut) >= Max(MinPageSize, Len(mFirstPage))
        /\ (lastOp \in {"encryptPage", "decryptPage"} /\ lastErr = "ok"
                /\ ~lastArg.isNull) =>
              /\ Len(mPageBufferIn) >= lastArg.size
              /\ Len(mPageBufferOut) >= lastArg.size
        /\ lastOp = "resizePageBuffers" =>
              /\ Len(mPageBufferIn) = lastArg.size
              /\ Len(mPageBufferOut) = lastArg.size

\* C9 witness: decryptFirstPageCache has run on a cache longer than the floor
C9_Witness ==
    /\ alive /\ lastOp = "decryptFirstPageCache"
    /\ Len(mFirstPage) > MinPageSize
    /\ Len(mPageBufferOut) = Len(mFirstPage)

\* C10: decryptFirstPageCache on an engine whose page-1 cache is empty raises
\* no error, does not call the cipher, and leaves the output buffer zero-filled
\* with at least 512 bytes, whatever the buffers held before.
C10_EmptyCacheProbe ==
    (lastOp = "decryptFirstPageCache" /\ mFirstPage = <<>>) =>
        /\ lastErr = "ok"
        /\ cipherCalls = 0
        /\ Len(mPageBufferOut) >= MinPageSize
        /\ mPageBufferOut = Zeros(Len(mPageBufferOut))

\* C10 witness: the call has run on an empty cache with an output buffer that
\* held page data
C10_Witness ==
    /\ lastOp = "decryptFirstPageCache" /\ mFirstPage = <<>>
    /\ pre.bufOut # <<>>
    /\ pre.bufOut # Zeros(Len(pre.bufOut))

\* the keyfile is a proper prefix of what the last writeKeyFile had to write
Truncated == keyfile # NoFile /\ Len(keyfile) < onDisk.full

\* C11: constructing an engine with exists == true fails with an I/O error,
\* and leaves no engine, whenever the keyfile is absent or ends early, at
\* whatever position: inside the key-size field, inside the wrapped key, inside
\* the page-size field or inside the first-page bytes.
C11_TruncatedKeyfileRejected ==
    (lastOp = "construct" /\ lastArg.exists /\ (keyfile = NoFile \/ Truncated))
        => (lastErr = "io" /\ ~alive)

\* a construction that found the keyfile cut inside the first-page bytes
C11_Witness ==
    /\ lastOp = "construct" /\ lastArg.exists /\ lastIO = IOOK
    /\ Truncated
    /\ Reread.step = "pageData"
    /\ lastErr = "io" /\ ~alive

\* the last operation ran readKeyFile or writeKeyFile
DidKeyfileIO == WroteKeyFile \/ (lastOp = "construct" /\ lastArg.exists)

C13_VerbatimForward ==
    fwd.entry # "none" =>
        /\ fwd.method = fwd.entry
        /\ fwd.receiver = "underlying"
        /\ fwd.args = fwd.given
        /\ fwd.returned = fwd.result
        /\ ShimState = fwd.shim

\* the current time was asked for while a key was pending
C13_Witness ==
    /\ fwd.entry = "CurrentTime"
    /\ fwd.method = "CurrentTime" /\ fwd.returned = "r1"
    /\ mFileKey # NoKey

\* the operations of a constructed engine
EngineOps ==
    {"encryptPage", "decryptPage", "decryptFirstPageCache",
     "resizePageBuffers", "rekey"}

\* C14: no encryptPage, decryptPage, decryptFirstPageCache, resizePageBuffers
\* or rekey changes the data key; encryptPage of a page other than 1 leaves
\* the page-1 cache, the wrapped key and the keyfile as they were; encryptPage
\* of page 1 makes the page-1 cache the ciphertext it returns (the output
\* buffer behind the returned pointer, which starts with the bytes of the
\* page) and has rewritten the keyfile from it when it returns.
C14_KeyStableEncryptFrame ==
    /\ lastOp \in EngineOps => mKey = pre.mKey
    /\ (lastOp = "encryptPage" /\ lastArg.pageNo # 1) =>
          /\ mFirstPage = pre.firstPage
          /\ mWrappedKey = pre.wrapped
          /\ keyfile = pre.keyfile
    /\ (lastOp = "encryptPage" /\ lastArg.pageNo = 1) =>
          /\ lastErr = "ok"
          /\ mFirstPage = mPageBufferOut
          /\ Prefix(mFirstPage, lastArg.size) = ret
          /\ mWrappedKey = pre.wrapped
          /\ keyfile = KeyfileImage

\* page 1 encrypted as the third or a later operation of an engine, replacing
\* an older cache and an older keyfile
C14_Witness ==
    /\ lastOp = "encryptPage" /\ lastArg.pageNo = 1 /\ sessOps >= 3
    /\ pre.firstPage # <<>> /\ mFirstPage # pre.firstPage
    /\ keyfile # pre.keyfile
    /\ mFirstPage = ret
    /\ mKey = pre.mKey

\* decryptFirstPageCache was the first operation of an engine constructed
\* with exists == true, and page 1 had been encrypted before
ProbedAfterReopen ==
    /\ lastOp = "decryptFirstPageCache"
    /\ alive /\ ~created /\ sessOps = 1
    /\ plainPage[1] # <<>>

C16_AllOrNothing ==
    /\ (lastOp = "decryptPage" /\ ~lastArg.isNull /\ lastErr # "ok") =>
          pageInOut = lastArg.page
    /\ (lastOp = "encryptPage" /\ lastErr # "ok") => ret = <<>>

\* a page of the database rejected by the cipher while the output buffer held
\* the plaintext of another page
C16_Witness ==
    /\ lastOp = "decryptPage" /\ ~lastArg.isNull /\ lastErr = "auth"
    /\ lastArg.page # <<>>
    /\ mPageBufferOut # <<>>
    /\ pageInOut = lastArg.page

\* what decryptPage does for the last arguments on an engine that has the
\* same data key and has not been used
FreshDecrypt ==
    decryptBuffers(<<>>, <<>>, mKey, lastArg.page, FALSE, lastArg.pageNo)

\* what encryptPage returns for the last arguments on such an engine
FreshEncrypt ==
    Prefix(encryptBuffers(<<>>, <<>>, mKey, lastArg.page, lastArg.pageNo).out,
           lastArg.size)

\* C17: what encryptPage returns and what decryptPage produces depend only on
\* the arguments and the data key, not on earlier calls on the engine; the
\* cipher is handed exactly the size bytes of the current page, also when an
\* earlier call has left the input buffer longer than size.
C17_HistoryIndependent ==
    /\ (lastOp = "encryptPage" /\ lastErr = "ok") =>
          /\ mPageBufferIn = lastArg.page
          /\ ret = FreshEncrypt
    /\ (lastOp = "decryptPage" /\ ~lastArg.isNull) =>
          /\ mPageBufferIn = lastArg.page
          /\ lastErr = FreshDecrypt.err
          /\ pageInOut = copyBack(lastArg.page, FreshDecrypt.out,
                                  FreshDecrypt.err)

\* C18: every FILE handle that readKeyFile or writeKeyFile opens is closed
\* before the call returns or throws; whatever operations have run, failed
\* constructions on truncated keyfiles included, no keyfile handle is open.
C18_NoOpenHandles == openHandles = 0

====
